---- MODULE Spec2Model ----
(***************************************************************************)
(* ReactionTimeLab (src/S10/reactiontimelab.py): the JSON scoreboard       *)
(* (load_scores, save_scores, register_or_get_user, update_score,          *)
(* get_top5) and the main loop's session state machine.                    *)
(*                                                                         *)
(* Times are integers.  Scores are in milliseconds (the code rounds a      *)
(* reaction to 3 decimals of a second); the clock counts half              *)
(* milliseconds, so that round(end_time - start_time, 3) is a real         *)
(* rounding.                                                               *)
(***************************************************************************)
EXTENDS Integers, Naturals, Sequences, FiniteSets, TLC

VARIABLES
    file,                 \* the content of DB_PATH
    username,             \* the session's user
    pc,                   \* position of the process
    game_state,           \* "start", "waiting", "click", "result", "scores"
    start_time,
    end_time,
    waiting_delay,
    delay_start,
    last_update_message,
    now,                  \* time.time(), in ticks
    mouse_on_button,      \* scores_button_rect.collidepoint(mouse_pos) of this frame
    nevents,              \* events handled so far in this frame
    event,                \* the kind of the event handled last in this frame
    screen,               \* what the last frame drew
    call,                 \* the last scoreboard call: arguments, result, effect
    prior,                \* the scoreboard call before it, when the functions are
                          \* called one after another (SpecStore)
    round                 \* update_score calls of the current round and the value submitted

vars == << file, username, pc, game_state, start_time, end_time, waiting_delay,
           delay_start, last_update_message, now, mouse_on_button, nevents,
           event, screen, call, prior, round >>

sessionVars == << game_state, start_time, end_time, waiting_delay, delay_start,
                  last_update_message >>

-----------------------------------------------------------------------------
(* Values *)

\* float("inf"), the score of a user without a completed round
Inf == 2147483647
\* Python None
None == -1
\* a JSON null as a player's value (only a manual edit puts it there)
PyNull == -2
\* the token Infinity json.dump writes for float("inf")
JInfinity == -3
\* the token null in the file
JNull == -4
\* 9999.0 seconds, the sort key get_top5 gives an unset score, in milliseconds
UnsetDisplay == 9999000
\* ticks of the clock per millisecond
TicksPerMs == 2

\* "<" of two Python values; "raise" for the TypeError of a comparison with None
PyLess(a, b) ==
    IF a = PyNull \/ b = PyNull THEN "raise"
    ELSE IF a < b THEN "true" ELSE "false"

\* round(x, 3) of a duration in ticks: the nearest millisecond, halves to even
Round3(d) ==
    LET q == d \div TicksPerMs
        r == d % TicksPerMs
    IN  IF 2 * r < TicksPerMs THEN q
        ELSE IF 2 * r > TicksPerMs THEN q + 1
        ELSE IF q % 2 = 0 THEN q ELSE q + 1

-----------------------------------------------------------------------------
(* The storage file.  kind is                                              *)
(*   "absent"   no file at DB_PATH                                         *)
(*   "garbage"  text json.load rejects (a truncated write is one)          *)
(*   "object"   a JSON object whose "players" is an object; players holds  *)
(*              its (name, value token) pairs in file order                *)
(*   "nokey"    a JSON object without "players"                            *)
(*   "notmap"   a JSON object whose "players" is not an object             *)
(*   "array"    a JSON array at top level                                  *)
(*   "scalar"   a JSON number or null at top level                         *)

Absent == [kind |-> "absent", players |-> << >>]
Garbage == [kind |-> "garbage", players |-> << >>]
Doc(tokens) == [kind |-> "object", players |-> tokens]

\* json.dump of one value
EncodeValue(v) ==
    IF v = Inf THEN JInfinity ELSE IF v = PyNull THEN JNull ELSE v

\* json.load of one value
DecodeValue(j) ==
    IF j = JInfinity THEN Inf ELSE IF j = JNull THEN PyNull ELSE j

\* json.dump(db, f): the players written without the {"players": ...} around them
JsonDump_bare(db) == [kind |-> "nokey", players |-> << >>]

\* json.dump(data, f) of {"players": db}
JsonDump(db) ==
    Doc([i \in 1..Len(db) |-> << db[i][1], EncodeValue(db[i][2]) >>])

\* json.load(f)["players"] of an "object" file
JsonLoad(f) ==
    [i \in 1..Len(f.players) |-> << f.players[i][1], DecodeValue(f.players[i][2]) >>]

\* A dict is the sequence of its (key, value) pairs in insertion order.
Keys(db) == {db[i][1] : i \in 1..Len(db)}

IndexOf(db, name) == CHOOSE i \in 1..Len(db) : db[i][1] = name

\* db.get(name, default)
DictGet(db, name, default) ==
    IF name \in Keys(db) THEN db[IndexOf(db, name)][2] ELSE default

\* db[name] = v
DictSet(db, name, v) ==
    IF name \in Keys(db)
    THEN [db EXCEPT ![IndexOf(db, name)] = << name, v >>]
    ELSE Append(db, << name, v >>)

\* What the file holds for name: its decoded value, or None without a record
Stored(f, name) ==
    IF f.kind = "object" /\ name \in Keys(f.players)
    THEN DictGet(JsonLoad(f), name, None)
    ELSE None

-----------------------------------------------------------------------------
(* Outcomes of the file operations.  A write (open(DB_PATH, "w") and       *)
(* json.dump) ends "ok", "denied" (open raises, the file is untouched),    *)
(* "partial" (open truncated the file and the dump raised) or "kill" (the  *)
(* process was killed after open truncated the file).  A read ends "ok"    *)
(* or "eio" (IOError).  io = [r, w, s]: the read of load_scores, the write *)
(* of load_scores, the write of save_scores.                               *)

IoOk == {[r |-> "ok", w |-> "ok", s |-> "ok"]}

\* one operation of a call fails, or the read and the write after it both do
IoFaults ==
    IoOk
    \cup {[r |-> "eio", w |-> w, s |-> "ok"] : w \in {"ok", "denied"}}
    \cup {[r |-> "ok", w |-> w, s |-> "ok"] : w \in {"denied", "partial", "kill"}}
    \cup {[r |-> "ok", w |-> "ok", s |-> x] : x \in {"denied", "partial", "kill"}}

\* with open(DB_PATH, "w") as f: json.dump(content, f)
WriteFile(f, content, w) ==
    CASE w = "ok" -> content
      [] w = "denied" -> f
      [] OTHER -> Garbage

\* The result of a scoreboard function:
\*   out     "return", "raise" (an exception leaves the function) or "kill"
\*   db      load_scores: the players it returns
\*   val     register_or_get_user: the best time it returns
\*   ok      update_score: the boolean it returns
\*   top     get_top5: the list it returns
\*   file    the file afterwards
\*   writes  the number of writes it attempted
\*   did     how the read of load_scores, the write of load_scores and the
\*           write of save_scores ended, "none" for one that did not take place
Result(out, db, f, writes, r, w) ==
    [out |-> out, db |-> db, val |-> None, ok |-> FALSE, top |-> << >>,
     file |-> f, writes |-> writes, did |-> [r |-> r, w |-> w, s |-> "none"]]

load_scores(f, io) ==
    IF f.kind = "absent" /\ io.w # "ok"
    THEN \* lines 49-55: the file cannot be created
         Result(IF io.w = "kill" THEN "kill" ELSE "return", << >>,
                WriteFile(f, JsonDump(<< >>), io.w), 1, "none", io.w)
    ELSE LET created == f.kind = "absent"
             g == IF created THEN WriteFile(f, JsonDump(<< >>), "ok") ELSE f
             n == IF created THEN 1 ELSE 0
             w == IF created THEN "ok" ELSE "none"
         IN  CASE io.r = "eio" \/ g.kind = "garbage" ->
                    \* lines 62-69: re-initialise the file
                    Result(IF io.w = "kill" THEN "kill" ELSE "return", << >>,
                           WriteFile(g, JsonDump(<< >>), io.w), n + 1, io.r, io.w)
               [] g.kind = "scalar" ->
                    \* line 59: "players" not in data raises TypeError
                    Result("raise", << >>, g, n, io.r, w)
               [] g.kind \in {"nokey", "notmap", "array"} ->
                    \* line 60
                    Result("return", << >>, g, n, io.r, w)
               [] OTHER ->
                    Result("return", JsonLoad(g), g, n, io.r, w)

\* save_scores(data): the file afterwards
save_scores(f, db, s) == WriteFile(f, JsonDump(db), s)

\* the result of a function that saves db after its load l and returns val or ok
Saved(l, db, val, ok, s) ==
    IF s = "kill"
    THEN [l EXCEPT !.out = "kill", !.file = save_scores(l.file, db, s),
                   !.writes = l.writes + 1, !.did.s = s]
    ELSE [l EXCEPT !.db = db, !.val = val, !.ok = ok,
                   !.file = save_scores(l.file, db, s),
                   !.writes = l.writes + 1, !.did.s = s]

\* register_or_get_user saving the scoreboard on every call
register_or_get_user_resave(f, name, io) ==
    LET l == load_scores(f, io)
        db == IF name \in Keys(l.db) THEN l.db ELSE DictSet(l.db, name, Inf)
    IN  IF l.out # "return" THEN l
        ELSE Saved(l, db, DictGet(db, name, None), FALSE, io.s)

register_or_get_user(f, name, io) ==
    LET l == load_scores(f, io)
    IN  IF l.out # "return" THEN l
        ELSE IF name \notin Keys(l.db)
        THEN LET db == DictSet(l.db, name, Inf)
             IN  Saved(l, db, DictGet(db, name, None), FALSE, io.s)
        ELSE [l EXCEPT !.val = DictGet(l.db, name, None)]

\* update_score comparing with <= instead of <
update_score_le(f, name, new_score, io) ==
    LET l == load_scores(f, io)
        old == DictGet(l.db, name, Inf)
        better == IF PyLess(old, new_score) = "false" THEN "true"
                  ELSE PyLess(new_score, old)
    IN  IF l.out # "return" THEN l
        ELSE IF better = "true"
        THEN Saved(l, DictSet(l.db, name, new_score), None, TRUE, io.s)
        ELSE l

\* update_score storing the new score whenever it differs from the old one
update_score_latest(f, name, new_score, io) ==
    LET l == load_scores(f, io)
        old == DictGet(l.db, name, Inf)
    IN  IF l.out # "return" THEN l
        ELSE IF new_score # old
        THEN Saved(l, DictSet(l.db, name, new_score), None,
                   PyLess(new_score, old) = "true", io.s)
        ELSE l

update_score(f, name, new_score, io) ==
    LET l == load_scores(f, io)
        old == DictGet(l.db, name, Inf)
        better == PyLess(new_score, old)
    IN  IF l.out # "return" THEN l
        ELSE IF better = "true"
        THEN Saved(l, DictSet(l.db, name, new_score), None, TRUE, io.s)
        ELSE \* not better, or the TypeError caught at line 100: return False
             l


\* len(sorted_players) < 5 and sorted_players[:5]
TopSize == 5

\* f"user{n}", the name of the placeholder appended as the n-th entry
PlaceholderName(n) ==
    CASE n = 1 -> "user1"
      [] n = 2 -> "user2"
      [] n = 3 -> "user3"
      [] n = 4 -> "user4"
      [] OTHER -> "user5"

\* line 112: inf becomes 9999.0
Normalized(db) ==
    [i \in 1..Len(db) |->
        << db[i][1], IF db[i][2] # Inf THEN db[i][2] ELSE UnsetDisplay >>]

\* the insertion of a descending sort
RECURSIVE InsertByScore_desc(_, _)
InsertByScore_desc(s, e) ==
    IF s = << >> THEN << e >>
    ELSE IF e[2] > Head(s)[2] THEN << e >> \o s
    ELSE << Head(s) >> \o InsertByScore_desc(Tail(s), e)

\* sorted() is stable: e goes after every entry whose key is not greater
RECURSIVE InsertByScore(_, _)
InsertByScore(s, e) ==
    IF s = << >> THEN << e >>
    ELSE IF e[2] < Head(s)[2] THEN << e >> \o s
    ELSE << Head(s) >> \o InsertByScore(Tail(s), e)

RECURSIVE SortedByScore(_)
SortedByScore(s) ==
    IF s = << >> THEN << >>
    ELSE InsertByScore(SortedByScore(SubSeq(s, 1, Len(s) - 1)), s[Len(s)])

\* sorted() compares keys as soon as there are two entries; None raises TypeError
SortRaises(s) == Len(s) >= 2 /\ \E i \in 1..Len(s) : s[i][2] = PyNull

\* lines 115-116
RECURSIVE Padded(_)
Padded(s) ==
    IF Len(s) < TopSize
    THEN Padded(Append(s, << PlaceholderName(Len(s) + 1), 0 >>))
    ELSE s

get_top5(f, io) ==
    LET l == load_scores(f, io)
        normalized == Normalized(l.db)
    IN  IF l.out # "return" THEN l
        ELSE IF SortRaises(normalized) THEN [l EXCEPT !.out = "raise"]
        ELSE [l EXCEPT !.top = SubSeq(Padded(SortedByScore(normalized)), 1, TopSize)]

-----------------------------------------------------------------------------
(* The record of a scoreboard call *)

NoCall ==
    [fn |-> "none", name |-> "", t |-> None, before |-> Absent,
     res |-> Result("return", << >>, Absent, 0, "none", "none")]

Called(fn, name, t, f, res) ==
    [fn |-> fn, name |-> name, t |-> t, before |-> f, res |-> res]

NoEvent == "none"

NoMessage == [kind |-> "", reaction |-> None]

NoRound == [calls |-> 0, submitted |-> None]

NoScreen == [state |-> "none", reaction |-> None, top |-> << >>]

\* lines 169-174
SessionInit ==
    /\ game_state = "start"
    /\ start_time = None
    /\ end_time = None
    /\ waiting_delay = None
    /\ delay_start = None
    /\ last_update_message = NoMessage

-----------------------------------------------------------------------------
(* The scoreboard functions called one after another, each with any         *)
(* arguments: the specification of the functions' contracts.                *)

StoreNames == {"alice", "bob"}
StoreTimes == {210, 253, 400}

\* the dicts with keys in names and values in vals, in every insertion order
Dicts(names, vals) ==
    LET pairs == names \X vals
    IN  {s \in UNION {[1..n -> pairs] : n \in 0..Cardinality(names)} :
            \A i, j \in 1..Len(s) : i # j => s[i][1] # s[j][1]}

\* what a run of the program leaves in DB_PATH
StoreFiles ==
    {Absent, Garbage} \cup
    {Doc(d) : d \in Dicts(StoreNames, StoreTimes \cup {JInfinity})}

StoreInit ==
    /\ file \in StoreFiles
    /\ username = "alice"
    /\ pc = "api"
    /\ SessionInit
    /\ now = 0
    /\ mouse_on_button = FALSE
    /\ nevents = 0
    /\ event = NoEvent
    /\ screen = NoScreen
    /\ call = NoCall
    /\ prior = NoCall
    /\ round = NoRound

Returned(fn, name, t, res) ==
    /\ call' = Called(fn, name, t, file, res)
    /\ prior' = call
    /\ file' = res.file
    /\ UNCHANGED << username, pc, sessionVars, now, mouse_on_button, nevents,
                    event, screen, round >>

CallLoad ==
    /\ pc = "api"
    /\ \E io \in IoOk : Returned("load", "", None, load_scores(file, io))

CallRegister ==
    /\ pc = "api"
    /\ \E name \in StoreNames, io \in IoOk :
          Returned("register", name, None, register_or_get_user(file, name, io))

CallUpdate ==
    /\ pc = "api"
    /\ \E name \in StoreNames, t \in StoreTimes, io \in IoOk :
          Returned("update", name, t, update_score(file, name, t, io))

CallTop5 ==
    /\ pc = "api"
    /\ \E io \in IoOk : Returned("top5", "", None, get_top5(file, io))

StoreNext == CallLoad \/ CallRegister \/ CallUpdate \/ CallTop5

SpecStore == StoreInit /\ [][StoreNext]_vars


-----------------------------------------------------------------------------
(* get_top5 applied to scoreboards of 0 to MaxPlayers players *)

MaxPlayers == 6

TopOrders ==
    { << "bob", "carol", "alice", "dave", "user5", "erin", "frank" >>,
      << "user3", "erin", "dave", "bob", "alice", "carol", "frank" >> }

\* 0.210 s, 0.300 s, 10000 s and unset
TopValues == {210, 300, 10000000, JInfinity}

TopFiles ==
    {Absent, Garbage} \cup
    {Doc([i \in 1..Len(v) |-> << order[i], v[i] >>]) :
        order \in TopOrders,
        v \in UNION {[1..k -> TopValues] : k \in 0..MaxPlayers}}

TopInit ==
    /\ file \in TopFiles
    /\ username = "alice"
    /\ pc = "api"
    /\ SessionInit
    /\ now = 0
    /\ mouse_on_button = FALSE
    /\ nevents = 0
    /\ event = NoEvent
    /\ screen = NoScreen
    /\ call = NoCall
    /\ prior = NoCall
    /\ round = NoRound

SpecTop == TopInit /\ [][CallTop5]_vars


-----------------------------------------------------------------------------
(* Claims about the scoreboard functions *)

\* the best time the file holds for name, a missing record counting as unset
BestIn(f, name) ==
    LET b == Stored(f, name) IN IF b = None THEN Inf ELSE b

Min(a, b) == IF a <= b THEN a ELSE b

\* C1: update_score(u, t) returns True exactly when t is strictly less than the
\* best stored for u before the call (unset when u has no record or no time);
\* with t equal to the stored best it returns False.
C1_UpdateReturnsTrueIffStrictlyBetter ==
    call.fn = "update" =>
        /\ call.res.out = "return"
        /\ call.res.ok <=> (call.t < BestIn(call.before, call.name))

\* update_score was called with the stored best itself and returned False
C1_Witness ==
    /\ call.fn = "update"
    /\ call.t = Stored(call.before, call.name)
    /\ ~call.res.ok

\* two update_score calls for one user, one after the other, with different times
TwoUpdates ==
    /\ prior.fn = "update"
    /\ call.fn = "update"
    /\ prior.name = call.name
    /\ prior.t # call.t
    /\ call.before = prior.res.file

\* C2 as stated: after update(u, t2); update(u, t1) and after update(u, t1);
\* update(u, t2), with t1 < t2, the stored best of u is t1.
C2_BothOrdersLeaveSmaller ==
    TwoUpdates => Stored(file, call.name) = Min(prior.t, call.t)

\* C2 amended: in both orders the stored best of u ends as the least of t1 and
\* the best stored before the two calls (t1 when u had no record, no time or a
\* best not below t1).
C2_BothOrdersLeaveMinimum ==
    TwoUpdates =>
        Stored(file, call.name) =
            Min(Min(prior.t, call.t), BestIn(prior.before, call.name))

\* the larger time was submitted first to a user without a time, then the smaller
C2_Witness ==
    /\ TwoUpdates
    /\ prior.t > call.t
    /\ BestIn(prior.before, call.name) = Inf
    /\ Stored(file, call.name) = call.t

\* C10: register_or_get_user(u) called twice in a row returns the same best time
\* both times and the second call writes nothing.
C10_RegisterTwiceSameAndNoWrite ==
    ( /\ prior.fn = "register"
      /\ call.fn = "register"
      /\ prior.name = call.name
      /\ call.before = prior.res.file )
    => /\ call.res.out = "return"
       /\ call.res.val = prior.res.val
       /\ call.res.writes = 0
       /\ file = call.before

\* the first of the two calls created the record, the second found it
C10_Witness ==
    /\ prior.fn = "register"
    /\ call.fn = "register"
    /\ prior.name = call.name
    /\ Stored(prior.before, call.name) = None
    /\ prior.res.writes > 0
    /\ call.res.val = Inf

\* the players of the scoreboard get_top5 read
PlayersOf(f) == IF f.kind = "object" THEN JsonLoad(f) ELSE << >>

\* the sort key of a player's value
KeyOf(v) == IF v = Inf THEN UnsetDisplay ELSE v

\* C8: get_top5 returns exactly 5 entries: the real players first, ascending by
\* score (the 5 best when there are more), then placeholders of score 0, which
\* number 5 minus the number of real players; {bob: 0.300, carol: 0.210} gives
\* carol, bob and three placeholders.
C8_Top5Shape ==
    call.fn = "top5" =>
        LET top == call.res.top
            db == PlayersOf(call.before)
            k == Min(Len(db), TopSize)
        IN  /\ call.res.out = "return"
            /\ Len(top) = TopSize
            /\ \A i \in 1..k :
                  /\ top[i][1] \in Keys(db)
                  /\ top[i][2] = KeyOf(DictGet(db, top[i][1], None))
            /\ \A i, j \in 1..k : i < j =>
                  /\ top[i][1] # top[j][1]
                  /\ top[i][2] <= top[j][2]
            /\ \A n \in Keys(db) :
                  (\A i \in 1..k : top[i][1] # n) =>
                      KeyOf(DictGet(db, n, None)) >= top[k][2]
            /\ \A i \in (k + 1)..TopSize :
                  top[i] = << PlaceholderName(i), 0 >>
            /\ call.before = Doc(<< << "bob", 300 >>, << "carol", 210 >> >>) =>
                  /\ top[1] = << "carol", 210 >>
                  /\ top[2] = << "bob", 300 >>
                  /\ \A i \in 3..5 : top[i][2] = 0

\* get_top5 read {bob: 0.300, carol: 0.210}
C8_Witness ==
    /\ call.fn = "top5"
    /\ call.before = Doc(<< << "bob", 300 >>, << "carol", 210 >> >>)
    /\ Len(call.res.top) = TopSize

\* more than 5 players were stored
C8_WitnessMany ==
    /\ call.fn = "top5"
    /\ Len(PlayersOf(call.before)) > TopSize
    /\ Len(call.res.top) = TopSize

\* C9: in the result of get_top5 no player without a time is listed before, or
\* instead of, a player with a finite best time, whatever that time is.
C9_UnsetAfterEveryFinite ==
    call.fn = "top5" =>
        LET top == call.res.top
            db == PlayersOf(call.before)
        IN  \A a, b \in Keys(db) :
              ( /\ DictGet(db, a, None) = Inf
                /\ DictGet(db, b, None) # Inf
                /\ \E i \in 1..Len(top) : top[i][1] = a )
              => \E i, j \in 1..Len(top) :
                     /\ top[i][1] = a
                     /\ top[j][1] = b
                     /\ j < i


-----------------------------------------------------------------------------
(* The program: line 120, then the main loop, frame by frame.  pc is       *)
(*   "boot"     before register_or_get_user(username) at line 120          *)
(*   "frame"    at the top of the while loop                               *)
(*   "events"   in the for loop over pygame.event.get()                    *)
(*   "logic"    before the state logic of lines 231-237                    *)
(*   "draw"     before the drawing of lines 243-311                        *)
(*   "tick"     before clock.tick(60)                                      *)
(*   "quit"     after sys.exit() at line 191                               *)
(*   "crashed"  ended by an uncaught exception                             *)
(*   "killed"   ended from outside                                         *)
(* A process that has ended holds nothing: its variables are back at the   *)
(* values they have when the program starts.                               *)

\* random.uniform(3, 7), in ticks
DelayMin == 3 * 1000 * TicksPerMs
DelayMax == 7 * 1000 * TicksPerMs
Delays == {DelayMin, DelayMax}

\* the time one frame takes, in ticks: clock.tick(60) makes it 1/60 s at least
FrameTicks == {3003, 6000}

\* the clock stops here
MaxClock == 18100

\* events one pygame.event.get() returns at most
MaxEvents == 2

ProgFiles ==
    { Absent, Garbage,
      Doc(<< >>),
      Doc(<< << "alice", JInfinity >> >>),
      Doc(<< << "alice", 1502 >> >>),
      Doc(<< << "bob", 300 >> >>),
      Doc(<< << "bob", 300 >>, << "alice", 3000 >> >>),
      Doc(<< << "alice", 100 >>, << "bob", JInfinity >> >>) }

Init ==
    /\ file \in ProgFiles
    /\ username = "alice"
    /\ pc = "boot"
    /\ SessionInit
    /\ now = 0
    /\ mouse_on_button = FALSE
    /\ nevents = 0
    /\ event = NoEvent
    /\ screen = NoScreen
    /\ call = NoCall
    /\ prior = NoCall
    /\ round = NoRound

\* where the process is after a scoreboard call made from pc-position next
After(res, next) ==
    CASE res.out = "kill" -> "killed"
      [] res.out = "raise" -> "crashed"
      [] OTHER -> next

\* the process ends
Gone ==
    /\ game_state' = "start"
    /\ start_time' = None
    /\ end_time' = None
    /\ waiting_delay' = None
    /\ delay_start' = None
    /\ last_update_message' = NoMessage
    /\ mouse_on_button' = FALSE
    /\ nevents' = 0
    /\ event' = NoEvent
    /\ screen' = NoScreen
    /\ round' = NoRound

\* line 120
Boot(IO) ==
    /\ pc = "boot"
    /\ \E io \in IO :
          LET res == register_or_get_user(file, username, io)
          IN  /\ file' = res.file
              /\ call' = Called("register", username, None, file, res)
              /\ pc' = After(res, "frame")
    /\ UNCHANGED << username, sessionVars, now, mouse_on_button, nevents, event,
                    screen, prior, round >>

\* lines 181-187: the mouse position of the frame, then the event queue
BeginFrame ==
    /\ pc = "frame"
    /\ mouse_on_button' \in BOOLEAN
    /\ nevents' = 0
    /\ event' = NoEvent
    /\ pc' = "events"
    /\ UNCHANGED << file, username, sessionVars, now, screen, call, prior, round >>

Handling == pc = "events" /\ nevents < MaxEvents

Handled(kind) ==
    /\ nevents' = nevents + 1
    /\ event' = kind

\* lines 188-191
Quit ==
    /\ Handling
    /\ pc' = "quit"
    /\ Gone
    /\ UNCHANGED << file, username, now, call, prior >>

\* an event that is neither QUIT nor a left MOUSEBUTTONDOWN
OtherEvent ==
    /\ Handling
    /\ Handled("other")
    /\ UNCHANGED << file, username, pc, sessionVars, now, mouse_on_button, screen,
                    call, prior, round >>

\* lines 195-203
ClickStart ==
    /\ Handling
    /\ game_state = "start"
    /\ Handled("click")
    /\ IF mouse_on_button
       THEN /\ game_state' = "scores"
            /\ UNCHANGED << waiting_delay, delay_start >>
       ELSE /\ waiting_delay' \in Delays
            /\ delay_start' = now
            /\ game_state' = "waiting"
    /\ UNCHANGED << file, username, pc, start_time, end_time, last_update_message,
                    now, mouse_on_button, screen, call, prior, round >>

\* a left click in "waiting" that starts the countdown again
ClickWaiting_restart ==
    /\ Handling
    /\ game_state = "waiting"
    /\ Handled("click")
    /\ delay_start' = now
    /\ UNCHANGED << file, username, pc, game_state, start_time, end_time,
                    waiting_delay, last_update_message, now, mouse_on_button,
                    screen, call, prior, round >>

\* a left click in "waiting": no branch of lines 195-226 takes it
ClickWaiting ==
    /\ Handling
    /\ game_state = "waiting"
    /\ Handled("click")
    /\ UNCHANGED << file, username, pc, sessionVars, now, mouse_on_button, screen,
                    call, prior, round >>

\* lines 213-217
Message(res, reaction) ==
    CASE res.out = "raise" -> [kind |-> "error", reaction |-> None]
      [] res.ok -> [kind |-> "best", reaction |-> reaction]
      [] OTHER -> [kind |-> "notbest", reaction |-> reaction]

\* the click of lines 205-218 without the try: what update_score raises ends
\* the process
ClickArmed_uncaught(IO) ==
    /\ Handling
    /\ game_state = "click"
    /\ \E io \in IO :
          LET reaction == Round3(now - start_time)
              res == update_score(file, username, reaction, io)
          IN  /\ file' = res.file
              /\ call' = Called("update", username, reaction, file, res)
              /\ IF res.out # "return"
                 THEN pc' = After(res, "events") /\ Gone
                 ELSE /\ Handled("click")
                      /\ end_time' = now
                      /\ round' = [calls |-> round.calls + 1,
                                   submitted |-> reaction]
                      /\ last_update_message' = Message(res, reaction)
                      /\ game_state' = "result"
                      /\ UNCHANGED << pc, start_time, waiting_delay, delay_start,
                                      mouse_on_button, screen >>
    /\ UNCHANGED << username, now, prior >>

\* lines 205-218
ClickArmed(IO) ==
    /\ Handling
    /\ game_state = "click"
    /\ \E io \in IO :
          LET reaction == Round3(now - start_time)
              res == update_score(file, username, reaction, io)
          IN  /\ file' = res.file
              /\ call' = Called("update", username, reaction, file, res)
              /\ IF res.out = "kill"
                 THEN pc' = "killed" /\ Gone
                 ELSE /\ Handled("click")
                      /\ end_time' = now
                      /\ round' = [calls |-> round.calls + 1,
                                   submitted |-> reaction]
                      /\ last_update_message' = Message(res, reaction)
                      /\ game_state' = "result"
                      /\ UNCHANGED << pc, start_time, waiting_delay, delay_start,
                                      mouse_on_button, screen >>
    /\ UNCHANGED << username, now, prior >>

\* a left click in "result" that starts the next round at once
ClickResult_again ==
    /\ Handling
    /\ game_state = "result"
    /\ Handled("click")
    /\ waiting_delay' \in Delays
    /\ delay_start' = now
    /\ game_state' = "waiting"
    /\ UNCHANGED << file, username, pc, start_time, end_time, last_update_message,
                    now, mouse_on_button, screen, call, prior, round >>

\* lines 220-222
ClickResult ==
    /\ Handling
    /\ game_state = "result"
    /\ Handled("click")
    /\ game_state' = "start"
    /\ UNCHANGED << file, username, pc, start_time, end_time, waiting_delay,
                    delay_start, last_update_message, now, mouse_on_button, screen,
                    call, prior, round >>

\* lines 224-226
ClickScores ==
    /\ Handling
    /\ game_state = "scores"
    /\ Handled("click")
    /\ game_state' = "start"
    /\ UNCHANGED << file, username, pc, start_time, end_time, waiting_delay,
                    delay_start, last_update_message, now, mouse_on_button, screen,
                    call, prior, round >>

\* the for loop of line 187 ends
EndEvents ==
    /\ pc = "events"
    /\ pc' = "logic"
    /\ UNCHANGED << file, username, sessionVars, now, mouse_on_button, nevents,
                    event, screen, call, prior, round >>

\* the state logic waiting 3 seconds whatever delay was sampled
Logic_fixed ==
    /\ pc = "logic"
    /\ pc' = "draw"
    /\ IF game_state = "waiting"
       THEN /\ delay_start' = IF delay_start = None THEN now ELSE delay_start
            /\ IF now - delay_start' >= DelayMin
               THEN /\ game_state' = "click"
                    /\ start_time' = now
                    /\ round' = NoRound
               ELSE UNCHANGED << game_state, start_time, round >>
       ELSE UNCHANGED << game_state, start_time, delay_start, round >>
    /\ UNCHANGED << file, username, end_time, waiting_delay, last_update_message,
                    now, mouse_on_button, nevents, event, screen, call, prior >>

\* lines 231-237; the two reads of time.time() give the same tick
Logic ==
    /\ pc = "logic"
    /\ pc' = "draw"
    /\ IF game_state = "waiting"
       THEN /\ delay_start' = IF delay_start = None THEN now ELSE delay_start
            /\ IF now - delay_start' >= waiting_delay
               THEN /\ game_state' = "click"
                    /\ start_time' = now
                    /\ round' = NoRound
               ELSE UNCHANGED << game_state, start_time, round >>
       ELSE UNCHANGED << game_state, start_time, delay_start, round >>
    /\ UNCHANGED << file, username, end_time, waiting_delay, last_update_message,
                    now, mouse_on_button, nevents, event, screen, call, prior >>

\* lines 303-309: round(score, 3) of a None raises, and the loop's try catches it
TopShown(top) ==
    IF \E i \in 1..Len(top) : top[i][2] = PyNull THEN "scores_error" ELSE "scores"

\* the result screen measuring up to the time of drawing
Draw_now(IO) ==
    /\ pc = "draw"
    /\ game_state # "scores"
    /\ screen' =
          [state |-> game_state,
           reaction |->
              IF game_state # "result" THEN None ELSE Round3(now - start_time),
           top |-> << >>]
    /\ pc' = "tick"
    /\ UNCHANGED << file, call, sessionVars, mouse_on_button, nevents, event,
                    round, username, now, prior >>

\* lines 243-311
Draw(IO) ==
    /\ pc = "draw"
    /\ IF game_state = "scores"
       THEN \E io \in IO :
              LET res == get_top5(file, io)
              IN  /\ file' = res.file
                  /\ call' = Called("top5", "", None, file, res)
                  /\ pc' = After(res, "tick")
                  /\ IF res.out = "return"
                     THEN /\ screen' = [state |-> TopShown(res.top),
                                        reaction |-> None, top |-> res.top]
                          /\ UNCHANGED << sessionVars, mouse_on_button, nevents,
                                          event, round >>
                     ELSE Gone
       ELSE /\ screen' =
                  [state |-> game_state,
                   reaction |->
                      IF game_state # "result" THEN None
                      ELSE IF end_time = None \/ start_time = None THEN 0
                      ELSE Round3(end_time - start_time),
                   top |-> << >>]
            /\ pc' = "tick"
            /\ UNCHANGED << file, call, sessionVars, mouse_on_button, nevents,
                            event, round >>
    /\ UNCHANGED << username, now, prior >>

\* line 315, clock.tick(60): the frame ends and time has passed
Tick ==
    /\ pc = "tick"
    /\ \E d \in FrameTicks :
          /\ now + d <= MaxClock
          /\ now' = now + d
    /\ pc' = "frame"
    /\ UNCHANGED << file, username, sessionVars, mouse_on_button, nevents, event,
                    screen, call, prior, round >>

\* the process is killed between two steps
Kill ==
    /\ pc \notin {"quit", "crashed", "killed"}
    /\ pc' = "killed"
    /\ Gone
    /\ UNCHANGED << file, username, now, call, prior >>

\* the program is started again
Restart ==
    /\ pc \in {"quit", "crashed", "killed"}
    /\ pc' = "boot"
    /\ UNCHANGED << file, username, sessionVars, now, mouse_on_button, nevents,
                    event, screen, call, prior, round >>

Run(IO) ==
    \/ Boot(IO)
    \/ BeginFrame
    \/ Quit
    \/ OtherEvent
    \/ ClickStart
    \/ ClickWaiting
    \/ ClickArmed(IO)
    \/ ClickResult
    \/ ClickScores
    \/ EndEvents
    \/ Logic
    \/ Draw(IO)
    \/ Tick

\* every file operation succeeds
Next == Run(IoOk)

Spec == Init /\ [][Next]_vars

\* file operations may fail, and the process may be killed and started again
NextFault == Run(IoFaults) \/ Kill \/ Restart

SpecFault == Init /\ [][NextFault]_vars


-----------------------------------------------------------------------------
(* Claims about the program *)

ProgNames == {"alice", "bob"}

\* C3: no step of the program removes a player's record from the file or makes
\* its stored best larger (a finite best never becomes unset or higher).
C3_RecordsNeverLostNorWorse ==
    [][\A n \in ProgNames :
          Stored(file, n) # None =>
              /\ Stored(file', n) # None
              /\ Stored(file', n) <= Stored(file, n)]_vars

\* what load_scores returns for name once the program runs again on file f
Reloaded(f, name) ==
    DictGet(load_scores(f, [r |-> "ok", w |-> "ok", s |-> "ok"]).db, name, None)

\* C4: when the process is killed, in a write of save_scores or anywhere else,
\* every record the file held is still there, with its value, for the load of
\* the next run.
C4_KillLosesNoRecord ==
    [][pc' = "killed" =>
          \A n \in ProgNames :
              Stored(file, n) # None => Reloaded(file', n) = Stored(file, n)]_vars

\* C5: a left click handled in "waiting" leaves game_state in "waiting", calls
\* no scoreboard function, and changes neither the file, the delay and its
\* start, nor last_update_message.
C5_PrematureClickIgnored ==
    [][(pc = "events" /\ game_state = "waiting" /\ event' = "click"
            /\ nevents' = nevents + 1) =>
          /\ game_state' = "waiting"
          /\ file' = file
          /\ call' = call
          /\ round' = round
          /\ waiting_delay' = waiting_delay
          /\ delay_start' = delay_start
          /\ last_update_message' = last_update_message]_vars

\* two events of a frame that began in "waiting" were handled, the second a click
C5_Witness ==
    /\ game_state = "waiting"
    /\ pc = "events"
    /\ delay_start < now
    /\ nevents = 2
    /\ event = "click"

\* C6: from "click" to "result" update_score is called exactly once, with the
\* reaction of the (start_time, end_time) pair the result screen shows.
C6_OneSubmissionSameTimestamps ==
    /\ game_state = "click" => round.calls = 0
    /\ game_state = "result" =>
          /\ round.calls = 1
          /\ call.fn = "update"
          /\ call.t = round.submitted
          /\ round.submitted = Round3(end_time - start_time)
          /\ screen.state = "result" => screen.reaction = round.submitted

\* the result screen was drawn again in a frame after the click
C6_Witness ==
    /\ game_state = "result"
    /\ screen.state = "result"
    /\ pc = "tick"
    /\ now > end_time
    /\ round.calls = 1
    /\ screen.reaction = call.t

\* C7: when the write of save_scores raises in update_score, update_score
\* returns False.
C7_FailedSaveReturnsFalse ==
    ( /\ call.fn = "update"
      /\ call.res.out = "return"
      /\ call.res.did.s \in {"denied", "partial"} )
    => ~call.res.ok


-----------------------------------------------------------------------------
(* The scoreboard functions on a DB_PATH that somebody edited by hand: any  *)
(* JSON text, or none.                                                      *)

NoKey == [kind |-> "nokey", players |-> << >>]
NotMap == [kind |-> "notmap", players |-> << >>]
TopArray == [kind |-> "array", players |-> << >>]
TopScalar == [kind |-> "scalar", players |-> << >>]

\* 0.210 s, 0.400 s, Infinity and null
EditValues == {210, 400, JInfinity, JNull}

EditFiles ==
    {Absent, Garbage, NoKey, NotMap, TopArray, TopScalar} \cup
    {Doc(d) : d \in Dicts(StoreNames, EditValues)}

EditInit ==
    /\ file \in EditFiles
    /\ username = "alice"
    /\ pc = "api"
    /\ SessionInit
    /\ now = 0
    /\ mouse_on_button = FALSE
    /\ nevents = 0
    /\ event = NoEvent
    /\ screen = NoScreen
    /\ call = NoCall
    /\ prior = NoCall
    /\ round = NoRound

SpecEdit == EditInit /\ [][StoreNext]_vars

\* load_scores() was called on a file of one of these kinds
Loaded(kinds) == call.fn = "load" /\ call.before.kind \in kinds

\* C11: after load_scores returns from a file that exists and is unparseable,
\* has no "players" key or has a "players" that is not a mapping, the file
\* holds the fresh empty scoreboard {"players": {}}.
C11_InvalidStorageOverwritten ==
    (Loaded({"garbage", "nokey", "notmap"}) /\ call.res.out = "return")
        => file = Doc(<< >>)

\* C12: load_scores on an existing file, whatever it holds that is not a
\* scoreboard (unparseable text, a number, null or a list at top level, an
\* object without "players", a "players" that is not a mapping), returns the
\* empty scoreboard and raises nothing.
C12_InvalidStorageLoadsEmpty ==
    Loaded({"garbage", "scalar", "array", "nokey", "notmap"})
        => call.res.out = "return" /\ call.res.db = << >>

\* C13: load_scores without a file returns the empty scoreboard, and afterwards
\* the file exists and holds {"players": {}}.
C13_MissingStorageCreated ==
    Loaded({"absent"}) =>
        /\ call.res.out = "return"
        /\ call.res.db = << >>
        /\ file = Doc(<< >>)

\* load_scores has just created the file
C13_Witness ==
    /\ Loaded({"absent"})
    /\ call.res.writes = 1
    /\ file.kind = "object"
    /\ file.players = << >>


-----------------------------------------------------------------------------
(* The program while somebody edits DB_PATH by hand: the file may hold any  *)
(* JSON text when the program starts, and may be replaced by another text   *)
(* between two steps of the program.  Every file operation succeeds.        *)

HandFiles ==
    { TopScalar,
      Doc(<< << "alice", JNull >> >>),
      Doc(<< << "alice", JNull >>, << "bob", 300 >> >>) }

HandInit ==
    /\ file \in {Absent, Doc(<< << "bob", 300 >>, << "alice", 3000 >> >>)}
                 \cup HandFiles
    /\ username = "alice"
    /\ pc = "boot"
    /\ SessionInit
    /\ now = 0
    /\ mouse_on_button = FALSE
    /\ nevents = 0
    /\ event = NoEvent
    /\ screen = NoScreen
    /\ call = NoCall
    /\ prior = NoCall
    /\ round = NoRound

\* DB_PATH is replaced while the program runs
EditFile ==
    /\ pc \notin {"quit", "crashed", "killed"}
    /\ file' \in HandFiles \ {file}
    /\ UNCHANGED << username, pc, sessionVars, now, mouse_on_button, nevents,
                    event, screen, call, prior, round >>

NextHand == Next \/ EditFile

SpecHand == HandInit /\ [][NextHand]_vars

\* a step of the event loop that takes the session out of "click" without
\* ending the program on QUIT
LeavesArmed ==
    /\ pc = "events"
    /\ game_state = "click"
    /\ game_state' # "click"
    /\ pc' # "quit"

\* C14: the left click handled in "click" puts the session in "result" and
\* the event loop goes on, whether update_score returned True (message of a
\* new best), returned False (message of no new best) or raised (caught:
\* last_update_message is the error message).
C14_ArmedClickReachesResult ==
    [][LeavesArmed =>
          /\ game_state' = "result"
          /\ pc' = "events"
          /\ event' = "click"
          /\ call'.fn = "update"
          /\ last_update_message'.kind =
                IF call'.res.out = "raise" THEN "error"
                ELSE IF call'.res.ok THEN "best" ELSE "notbest"]_vars

\* update_score raised in the click of "click" and the result screen came
C14_Witness ==
    /\ game_state = "result"
    /\ call.fn = "update"
    /\ call.res.out = "raise"
    /\ last_update_message.kind = "error"
    /\ pc \in {"events", "logic", "draw", "tick"}

\* C15: the process never ends on an exception of a scoreboard function or of
\* the main loop: it ends on QUIT only.
C15_EndsOnlyOnQuit ==
    pc # "crashed"


-----------------------------------------------------------------------------
(* Claims about the session: "start" is Idle, "waiting" Countdown, "click"  *)
(* Armed, "result" Result and "scores" Leaderboard.                         *)

\* the step handles a left MOUSEBUTTONDOWN of the event queue
LeftClick ==
    /\ pc = "events"
    /\ pc' = "events"
    /\ event' = "click"
    /\ nevents' = nevents + 1

\* the step changes game_state from a to b
Moves(a, b) == game_state = a /\ game_state' = b

\* C16: while the program runs, game_state changes only from "start" to
\* "waiting" (click off the button), "start" to "scores" (click on the
\* button), "waiting" to "click" (in the state logic, by time, never by a
\* click), "click" to "result" (click), "result" to "start" (click) and
\* "scores" to "start" (click).
C16_OnlyListedTransitions ==
    [][(game_state' # game_state /\ pc' # "quit") =>
          \/ Moves("start", "waiting") /\ LeftClick /\ ~mouse_on_button
          \/ Moves("start", "scores") /\ LeftClick /\ mouse_on_button
          \/ Moves("waiting", "click") /\ pc = "logic" /\ event' = event
                /\ nevents' = nevents
          \/ Moves("click", "result") /\ LeftClick
          \/ Moves("result", "start") /\ LeftClick
          \/ Moves("scores", "start") /\ LeftClick]_vars

\* a whole round was played and its result dismissed by a click
C16_Witness ==
    /\ game_state = "start"
    /\ pc = "events"
    /\ event = "click"
    /\ round.calls = 1
    /\ end_time # None

\* C17: a countdown starts with a delay of 3 to 7 seconds sampled at the click
\* that starts it, delay and start stay as they are during the countdown, and
\* game_state becomes "click" only when the time since the start of the
\* countdown is at least the delay, so at least 3 seconds.
C17_ArmedNotBeforeDelay ==
    [][/\ (game_state # "waiting" /\ game_state' = "waiting") =>
              /\ waiting_delay' \in DelayMin..DelayMax
              /\ delay_start' = now
       /\ (game_state = "waiting" /\ pc' # "quit") =>
              /\ waiting_delay' = waiting_delay
              /\ delay_start' = delay_start
       /\ (game_state # "click" /\ game_state' = "click") =>
              /\ now - delay_start >= waiting_delay
              /\ now - delay_start >= DelayMin
              /\ start_time' = now]_vars

\* the stimulus came after a countdown of 7 seconds
C17_Witness ==
    /\ game_state = "click"
    /\ waiting_delay = DelayMax
    /\ start_time - delay_start >= DelayMax


-----------------------------------------------------------------------------
(* The program with its frames running: the while loop of line 180 goes     *)
(* from one statement to the next, pygame.event.get() returns a finite list *)
(* and clock.tick(60) returns.  The clock of the model stops at MaxClock,   *)
(* so a countdown is started only when it ends before the clock stops.      *)

\* the shortest frame
MinFrame == CHOOSE d \in FrameTicks : \A e \in FrameTicks : d <= e

\* lines 195-203, while the clock can still reach the end of the countdown
ClickStartLive ==
    /\ ClickStart
    /\ game_state' = "waiting" => now + waiting_delay' <= MaxClock - MinFrame

NextLive ==
    \/ Boot(IoOk)
    \/ BeginFrame
    \/ Quit
    \/ OtherEvent
    \/ ClickStartLive
    \/ ClickWaiting
    \/ ClickArmed(IoOk)
    \/ ClickResult
    \/ ClickScores
    \/ EndEvents
    \/ Logic
    \/ Draw(IoOk)
    \/ Tick

\* the step of the drawing section: Draw is enabled exactly at "draw", and
\* whether it draws or get_top5 does not return, the program leaves "draw"
DrawStep == pc = "draw" /\ pc' \in {"tick", "crashed", "killed"}

FramesRun ==
    /\ WF_vars(BeginFrame)
    /\ WF_vars(EndEvents)
    /\ WF_vars(Logic)
    /\ WF_pc(DrawStep)
    /\ WF_vars(Tick)

SpecLive == Init /\ [][NextLive]_vars /\ FramesRun

\* C18: from "waiting" the session comes to "click" whatever events arrive
\* during the countdown, clicks included, unless QUIT ends the program first.
C18_CountdownReachesArmed ==
    (game_state = "waiting") ~> (game_state = "click" \/ pc = "quit")

\* the countdown ended in a frame whose two events were handled in "waiting",
\* the last of them a click
C18_Witness ==
    /\ game_state = "click"
    /\ pc = "draw"
    /\ start_time = now
    /\ nevents = 2
    /\ event = "click"


\* C19: a click takes the session from "result" back to "start" only after a
\* frame has drawn the result screen: the click that made it "result" and the
\* click that leaves it are never handled in the same frame.
C19_ResultDrawnBeforeIdle ==
    [][(LeftClick /\ Moves("result", "start")) =>
          /\ screen.state = "result"
          /\ now > end_time]_vars


-----------------------------------------------------------------------------
(* The names of a leaderboard *)

\* C20: the five names get_top5 returns are pairwise different, so no
\* placeholder "user1".."user5" has the name of a real player of the same
\* list, also when real players are called "userN".
C20_Top5NamesDistinct ==
    (call.fn = "top5" /\ call.res.out = "return") =>
        \A i, j \in 1..Len(call.res.top) :
            i # j => call.res.top[i][1] # call.res.top[j][1]

=============================================================================
